---- MODULE Spec2Model ----
(***************************************************************************)
(* Joule (Brayton) cycle solver: JouleProcessCalculator of                 *)
(* src/models/joule_process.py with the gas property provider of           *)
(* src/models/gas_properties.py.                                           *)
(*                                                                         *)
(* Numbers.  A Python float is modelled as a fixed-point number: the       *)
(* integer x stands for the real x / S (S = 1000).  Addition, subtraction  *)
(* and comparison are exact; products and quotients are rounded to the     *)
(* nearest unit.  Logarithms and real powers are computed internally at    *)
(* the finer scale L = 2^15.  All intermediate values stay inside 32 bits. *)
(* State labels are the strings "1", "2", "2s", ... (Python mixes the      *)
(* integer keys 1..4 with string keys).  None is the empty tuple and a     *)
(* present optional value x is <<x>>.                                      *)
(***************************************************************************)
EXTENDS Integers, Sequences, FiniteSets, TLC

S == 10 * 100
L == 2 ^ 15

Abs(x) == IF x < 0 THEN -x ELSE x
Sgn(x) == IF x < 0 THEN -1 ELSE 1
Max2(a, b) == IF a >= b THEN a ELSE b
Min2(a, b) == IF a <= b THEN a ELSE b

\* Python evaluates the arguments of a call before the call and assignments
\* in program order: values are computed in the order listed, then result is
\* built from them.
InOrder(values, result) == IF Len(values) >= 0 THEN result ELSE result

\* n / S as a fixed-point number, for n an integer and S-compatible literals:
\* Dec(287, 58) is 287.058.
Dec(int, milli) == int * S + milli

\* x / d rounded to the nearest integer, d > 0
Round(x, d) == Sgn(x) * ((Abs(x) + d \div 2) \div d)

\* round(x * y / c) for x, y >= 0 and 0 < c < 46341, without overflow.
MulDivMag(x, y, c) ==
    (x \div c) * y + (x % c) * (y \div c) + ((x % c) * (y % c) + c \div 2) \div c

MulDiv(x, y, c) == InOrder(<<x, y, c>>, Sgn(x) * Sgn(y) * MulDivMag(Abs(x), Abs(y), c))

\* x * y
Mul(x, y) == MulDiv(x, y, S)

\* round(x * S / y) for x >= 0, y > 0; operands are scaled down together
\* while the long division would leave 32 bits.
RECURSIVE DivMag(_, _)
DivMag(x, y) ==
    IF y > 2000000 THEN DivMag((x + 5) \div 10, (y + 5) \div 10)
    ELSE (x \div y) * S + ((x % y) * S + y \div 2) \div y

\* x / y, y # 0
Div(x, y) == InOrder(<<x, y>>, Sgn(x) * Sgn(y) * DivMag(Abs(x), Abs(y)))

\* floor(log2(n)) for 1 <= n < 2^31.
Log2Floor(n) == CHOOSE e \in 0..30 : 2 ^ e <= n /\ (e = 30 \/ n < 2 ^ (e + 1))

\* round(sqrt(n)) for an integer 0 <= n < 2^31: Newton's iteration downwards
\* from a power of two above the root.
RECURSIVE ISqrtIter(_, _)
ISqrtIter(n, r) ==
    IF (r + n \div r) \div 2 >= r THEN r ELSE ISqrtIter(n, (r + n \div r) \div 2)

\* the root r found by the iteration, rounded to the nearest integer
ISqrtRound(n, r) == IF n - r * r > r THEN r + 1 ELSE r

ISqrt(n) ==
    IF n < 2 THEN n
    ELSE ISqrtRound(n, ISqrtIter(n, 2 ^ (Log2Floor(n) \div 2 + 1)))

\* sqrt(x * y) for fixed-point x, y >= 0: sqrt(x) * sqrt(y) on the raw integers.
SqrtProd(x, y) == ISqrt(x) * ISqrt(y)

\* ln 2 at scale L (0.69314).
Ln2 == (34657 * L + 25000) \div 50000

\* a * b at scale L
MulL(a, b) == (a * b + L \div 2) \div L

\* 2 (t / n + t z2 / (n + 2) + ... ) up to the term of exponent last: the odd
\* series of 2 atanh, t the current odd power of z and z2 = z^2, at scale L.
RECURSIVE OddSeries(_, _, _, _)
OddSeries(t, z2, n, last) ==
    IF n > last THEN 0
    ELSE (2 * t + n \div 2) \div n + OddSeries(MulL(t, z2), z2, n + 2, last)

\* 2 atanh(z / L) at scale L, to the ninth power
Atanh2(z) == OddSeries(z, MulL(z, z), 1, 9)

\* ln(m / L) at scale L for L <= m <= 2 L, by 2 atanh((m - L) / (m + L)).
LnMant(m) == Atanh2(((m - L) * L + (m + L) \div 2) \div (m + L))

\* ln(n) at scale L for an integer n >= 1 with e = floor(log2(n)).
LnNormal(n, e) ==
    e * Ln2 + LnMant(IF e <= 15 THEN n * 2 ^ (15 - e)
                     ELSE (n + 2 ^ (e - 16)) \div 2 ^ (e - 15))

\* ln(n) at scale L for an integer n >= 1.
LnInt(n) == LnNormal(n, Log2Floor(n))

\* ln(a / b) at scale L for a, b > 0.
LnRatio(a, b) == InOrder(<<a, b>>, LnInt(a) - LnInt(b))

\* t + t r / n + t r^2 / (n (n + 1)) + ... up to the divisor last: the tail
\* of the exponential series from the term t on, at scale L.
RECURSIVE Taylor(_, _, _, _)
Taylor(t, r, n, last) ==
    IF n > last THEN t
    ELSE t + Taylor((t * r + (n * L) \div 2) \div (n * L), r, n + 1, last)

\* e * 2^k
Scale2(e, k) == IF k >= 0 THEN e * 2 ^ k ELSE (e + 2 ^ (-k - 1)) \div 2 ^ (-k)

\* exp(r / L) 2^k at scale L, 0 <= r < ln 2: the series to the seventh power
Exp2(k, r) == Scale2(L + Taylor(r, r, 2, 7), k)

\* exp(x / L) at scale L.
ExpL(x) == Exp2(x \div Ln2, x - (x \div Ln2) * Ln2)

\* t * exp(x / L)
MulExp(t, x) == InOrder(<<t, x>>, MulDiv(t, ExpL(x), L))

\* t * (a / b) ** (en / ed): the isentropic relation and its pre-estimates.
\* a, b > 0 and 0 < |ed| < 46341.
MulPow(t, a, b, en, ed) ==
    InOrder(<<t, a, b, en, ed>>,
            MulExp(t, MulDiv(LnRatio(a, b), en * Sgn(ed), Abs(ed))))

\* c * np.log(a / b), a, b > 0
MulLn(c, a, b) == InOrder(<<c, a, b>>, MulDiv(c, LnRatio(a, b), L))

\* d / (ln / L), ln # 0
DivL(d, ln) == InOrder(<<d, ln>>, MulDiv(d, L * Sgn(ln), Abs(ln)))

\* d / np.log(a / b), a, b > 0, a # b
DivLn(d, a, b) == DivL(d, LnRatio(a, b))


(***************************************************************************)
(* Gas property provider (src/models/gas_properties.py).                   *)
(***************************************************************************)

None == <<>>
Some(x) == <<x>>
Val(o) == o[1]

\* GAS_PROPERTIES.  cp_coeffs holds a, 10^3 b, 10^6 c, 10^9 d, the
\* coefficients of cp as a cubic in T / 1000 (the same polynomial as
\* a + b T + c T^2 + d T^3).  Display name, molar mass and T_range are never
\* read by the solver and are left out.
GAS_PROPERTIES ==
    [air |->
        [R |-> Dec(287, 58), kappa_approx |-> Dec(1, 400),
         cp_coeffs |-> <<Dec(1047, 630), -Dec(372, 589), Dec(945, 304), -Dec(602, 409)>>,
         cp_const |-> Dec(1005, 0)],
     helium |->
        [R |-> Dec(2077, 100), kappa_approx |-> Dec(1, 667),
         cp_coeffs |-> <<Dec(5193, 0), 0, 0, 0>>,
         cp_const |-> Dec(5193, 0)],
     nitrogen |->
        [R |-> Dec(296, 800), kappa_approx |-> Dec(1, 400),
         cp_coeffs |-> <<Dec(1041, 0), -Dec(290, 0), Dec(700, 0), -Dec(500, 0)>>,
         cp_const |-> Dec(1040, 0)],
     carbon_dioxide |->
        [R |-> Dec(188, 900), kappa_approx |-> Dec(1, 300),
         cp_coeffs |-> <<Dec(820, 0), Dec(1200, 0), -Dec(500, 0), Dec(70, 0)>>,
         cp_const |-> Dec(846, 0)]]

\* x * T / 1000 for a coefficient x and a temperature T.
TimesKiloKelvin(x, T) == InOrder(<<x, T>>, Round(Mul(x, Round(T, 10)), 100))

\* a + b T + c T^2 + d T^3 in Horner's form
Cubic(co, T) ==
    co[1] + TimesKiloKelvin(co[2] + TimesKiloKelvin(co[3] + TimesKiloKelvin(co[4], T), T), T)

cp(T, gas, use_const) ==
    IF use_const THEN GAS_PROPERTIES[gas].cp_const
    ELSE Cubic(GAS_PROPERTIES[gas].cp_coeffs, T)

cp_mean(T1, T2, gas, use_const) ==
    IF use_const THEN GAS_PROPERTIES[gas].cp_const
    ELSE Div(cp(T1, gas, FALSE) + cp(T2, gas, FALSE), 2 * S)

cv(T, gas, use_const) == cp(T, gas, use_const) - GAS_PROPERTIES[gas].R

kappa(T, gas, use_const) ==
    IF use_const THEN GAS_PROPERTIES[gas].kappa_approx
    ELSE Div(cp(T, gas, FALSE), cv(T, gas, FALSE))

kappa_mean(T1, T2, gas, use_const) ==
    IF use_const THEN GAS_PROPERTIES[gas].kappa_approx
    ELSE InOrder(<<T1, T2>>, Div(kappa(T1, gas, FALSE) + kappa(T2, gas, FALSE), 2 * S))

\* variant of specific_volume: the gas argument is left at its default "air"
specific_volume_default_gas(p, T, gas) == Div(Mul(GAS_PROPERTIES["air"].R, T), p)
\* R * T / p, p # 0
specific_volume(p, T, gas) == Div(Mul(GAS_PROPERTIES[gas].R, T), p)

(***************************************************************************)
(* The solver instance (src/models/joule_process.py).  A handler is an     *)
(* operator from the instance (self) and its arguments to an outcome: the  *)
(* instance it leaves behind, the exception it raised ("none" when it      *)
(* returned) and the value it returned.  Step titles are spelled in ASCII. *)
(***************************************************************************)

\* dict operations on the label -> record map and on result dicts
Has(d, k) == k \in DOMAIN d
\* variant of Put: the assignment forgets every other entry
PutAlone(d, k, v) == (k :> v)
Put(d, k, v) == (k :> v) @@ d
EmptyDict == [k \in {} |-> 0]

\* the state record {"p", "T", "v", "h", "s"}
Rec(p, T, v, h, s) == [p |-> p, T |-> T, v |-> v, h |-> h, s |-> s]

JouleProcessCalculator(gas, use_const_cp) ==
    [gas |-> gas,
     use_const_cp |-> use_const_cp,
     steps |-> <<>>,
     states |-> EmptyDict,
     step_categories |-> <<>>,
     R |-> GAS_PROPERTIES[gas].R,
     cp_const |-> IF use_const_cp THEN Some(GAS_PROPERTIES[gas].cp_const) ELSE None,
     kappa |-> IF use_const_cp THEN Some(GAS_PROPERTIES[gas].kappa_approx) ELSE None,
     cv_const |-> IF use_const_cp
                  THEN Some(GAS_PROPERTIES[gas].cp_const - GAS_PROPERTIES[gas].R)
                  ELSE None,
     regeneration |-> FALSE,
     reg_eff |-> 0,
     compressor_efficiency |-> S,
     turbine_efficiency |-> S,
     mass_flow |-> None,
     intercooling |-> FALSE,
     intercooling_temperature |-> None,
     intercooling_pressure_ratio |-> None]

\* index of a category in the insertion-ordered category dict, 0 if absent
CategoryIndex(cats, category) ==
    IF \E i \in 1..Len(cats) : cats[i].category = category
    THEN CHOOSE i \in 1..Len(cats) : cats[i].category = category
    ELSE 0

\* variant of _add_step: the step is put at the head of its category's list
_add_step_at_head(self, title, category) ==
    LET step == [n |-> Len(self.steps) + 1, title |-> title]
        i    == CategoryIndex(self.step_categories, category)
    IN [self EXCEPT
          !.steps = Append(@, step),
          !.step_categories =
              IF i = 0 THEN Append(@, [category |-> category, steps |-> <<step>>])
              ELSE [@ EXCEPT ![i].steps = <<step>> \o @]]
\* One step dict is appended to the flat log and to its category's list.  Both
\* lists hold the same object; n, the position in the flat log at creation,
\* stands for its identity.
_add_step(self, title, category) ==
    LET step == [n |-> Len(self.steps) + 1, title |-> title]
        i    == CategoryIndex(self.step_categories, category)
    IN [self EXCEPT
          !.steps = Append(@, step),
          !.step_categories =
              IF i = 0 THEN Append(@, [category |-> category, steps |-> <<step>>])
              ELSE [@ EXCEPT ![i].steps = Append(@, step)]]

\* consecutive _add_step calls of one category: the outcome of folding
\* _add_step over the titles
AddSteps(self, titles, category) ==
    LET new == [i \in 1..Len(titles) |->
                   [n |-> Len(self.steps) + i, title |-> titles[i]]]
        i   == CategoryIndex(self.step_categories, category)
    IN IF titles = <<>> THEN self
       ELSE [self EXCEPT
               !.steps = @ \o new,
               !.step_categories =
                   IF i = 0 THEN Append(@, [category |-> category, steps |-> new])
                   ELSE [@ EXCEPT ![i].steps = @ \o new]]

\* outcomes of a handler
Return(self, ret) == [self |-> self, raised |-> "none", ret |-> ret]
\* variant of Raise: the failing call also clears the state map
RaiseClearing(self, exc) ==
    [self |-> [self EXCEPT !.states = EmptyDict], raised |-> exc, ret |-> None]
Raise(self, exc) == [self |-> self, raised |-> exc, ret |-> None]

set_parameters(self, regeneration, reg_eff, compressor_efficiency, turbine_efficiency, mass_flow, intercooling, intercooling_temperature, intercooling_pressure_ratio) ==
    LET s1 == [self EXCEPT
                  !.regeneration = regeneration,
                  !.reg_eff = reg_eff,
                  !.compressor_efficiency = compressor_efficiency,
                  !.turbine_efficiency = turbine_efficiency,
                  !.mass_flow = mass_flow,
                  !.intercooling = intercooling,
                  !.intercooling_temperature = intercooling_temperature,
                  !.intercooling_pressure_ratio = intercooling_pressure_ratio]
        s2 == _add_step(s1, "Parameter fuer den JOULE-Prozess", "Allgemein")
    IN Return(IF intercooling
              THEN _add_step(s2, "Parameter fuer die Zwischenkuehlung", "Zwischenkuehlung")
              ELSE s2, None)

calculate_state_1(self, p1, T1) ==
    LET s1 == _add_step(self, "Zustand 1 (Verdichtereintritt)", "Zustand 1")
    IN IF p1 = 0 THEN Raise(s1, "ZeroDivisionError")
       ELSE LET v1 == specific_volume(p1, T1, self.gas)
                s4 == AddSteps(s1, <<"Spezifisches Volumen v1",
                                     "Spezifische Enthalpie h1",
                                     "Spezifische Entropie s1">>, "Zustand 1")
            IN InOrder(<<v1>>,
                 Return([s4 EXCEPT !.states = Put(@, "1", Rec(p1, T1, v1, 0, 0))], None))

\* cp used over a temperature interval: self.cp_const, or cp_mean(Ta, Tb)
CpOver(self, Ta, Tb) ==
    IF self.use_const_cp THEN Val(self.cp_const)
    ELSE cp_mean(Ta, Tb, self.gas, FALSE)

\* isentropic exponent of a compression or expansion starting at T from
\* pressure pa to pb: self.kappa, or kappa_mean(T, T * (pb / pa) ** (en / 10))
KappaOver(self, T, pb, pa, en) ==
    IF self.use_const_cp THEN Val(self.kappa)
    ELSE kappa_mean(T, MulPow(T, pb, pa, en, 10), self.gas, FALSE)

\* T * (pb / pa) ** ((k - 1) / k)
IsentropicT(T, pb, pa, k) == MulPow(T, pb, pa, k - S, k)

\* entropy change cp ln(Tb / Ta) - R ln(pb / pa)
EntropyChange(cp_val, R, Tb, Ta, pb, pa) ==
    InOrder(<<cp_val, Tb, Ta>>, MulLn(cp_val, Tb, Ta) - MulLn(R, pb, pa))

\* the prerequisite test of a handler: the label it needs is in the state map
MissingState(self, label) == ~ Has(self.states, label)

\* the record at the end of an isentropic change from state st to pressure p
\* and temperature Ts: v from the gas law, h over cp of the interval, s kept
IsentropicEnd(self, st, p, Ts) ==
    InOrder(<<Ts>>,
            Rec(p, Ts, specific_volume(p, Ts, self.gas),
                st.h + Mul(CpOver(self, st.T, Ts), Ts - st.T), st.s))

\* isentropic change from state st to pressure p
IsentropicChange(self, st, p) ==
    IsentropicEnd(self, st, p,
                  IsentropicT(st.T, p, st.p, KappaOver(self, st.T, p, st.p, 2)))

\* pressures are >= 0; p2 = 0 gives T2s = 0 and v2s = R * 0 / 0
calculate_state_2_isentropic(self, p2) ==
    IF MissingState(self, "1") THEN Raise(self, "ValueError")
    ELSE IF p2 = 0
    THEN Raise(AddSteps(self, <<"Zustand 2s (isentroper Verdichteraustritt)",
                                "Isentropenexponent kappa fuer die Verdichtung",
                                "Temperatur T2s (isentrop)",
                                "Temperatur T2s in C">>, "Allgemein"),
               "ZeroDivisionError")
    ELSE Return(AddSteps(self, <<"Zustand 2s (isentroper Verdichteraustritt)",
                                 "Isentropenexponent kappa fuer die Verdichtung",
                                 "Temperatur T2s (isentrop)",
                                 "Temperatur T2s in C",
                                 "Spezifisches Volumen v2s",
                                 "Spezifische Waermekapazitaet cp",
                                 "Enthalpiedifferenz dh12s",
                                 "Spezifische Enthalpie h2s",
                                 "Spezifische Entropie s2s">>, "Allgemein"),
                IsentropicChange(self, self.states["1"], p2))

\* the branch test of the real compression: losses are applied below 1.0
CompressorLossy(self) == self.compressor_efficiency < S

\* variant of CompressorRise: the efficiency multiplies
CompressorRiseTimes(dT_isentrop, compressor_efficiency) ==
    Mul(dT_isentrop, compressor_efficiency)
\* real temperature rise of a compression: dT_isentrop / compressor_efficiency
CompressorRise(dT_isentrop, compressor_efficiency) ==
    Div(dT_isentrop, compressor_efficiency)

\* cp_val of a lossy machine: self.cp_const, or the effective value
\* (h_s - h) / (T_s - T) between the inlet st and the isentropic end ends
EffectiveCp(self, st, ends) ==
    IF self.use_const_cp THEN Val(self.cp_const)
    ELSE Div(ends.h - st.h, ends.T - st.T)

\* the record at the real end (p, T, h) of a compression or expansion from
\* state st: v from the gas law, s from the entropy change over the interval
RealEnd(self, st, p, T, h) ==
    InOrder(<<T, h>>,
            Rec(p, T, specific_volume(p, T, self.gas), h,
                st.s + EntropyChange(CpOver(self, st.T, T), self.R, T, st.T, p, st.p)))

\* lossy compression: T2 = T1 + dT_real, h2 = h1 + cp_val * dT_real
LossyCompression(self, st, state_2s, p2, dT_real) ==
    InOrder(<<dT_real>>,
            RealEnd(self, st, p2, st.T + dT_real,
                    st.h + Mul(EffectiveCp(self, st, state_2s), dT_real)))

\* state 2 of the single-stage compression from st with isentropic end state_2s
RealCompression(self, st, state_2s, p2) ==
    IF CompressorLossy(self)
    THEN LossyCompression(self, st, state_2s, p2,
                          CompressorRise(state_2s.T - st.T, self.compressor_efficiency))
    ELSE RealEnd(self, st, p2, state_2s.T, state_2s.h)

\* the instance once r.ret is stored under label and the first step of the
\* real change is logged
StoreIsentropic(r, label, title) ==
    _add_step([r.self EXCEPT !.states = Put(@, label, r.ret)], title, "Allgemein")

\* the step that reports the effective cp, logged when cp varies
EffectiveCpStep(self, lossy, title) ==
    IF lossy /\ ~ self.use_const_cp THEN <<title>> ELSE <<>>

\* calculate_state_2 after its call r of calculate_state_2_isentropic
RealState2(self, p2, r) ==
    IF r.raised # "none" THEN Raise(r.self, r.raised)
    ELSE IF CompressorLossy(self) /\ ~ self.use_const_cp /\ r.ret.T = self.states["1"].T
    THEN Raise(StoreIsentropic(r, "2s", "Zustand 2 (realer Verdichteraustritt)"),
               "ZeroDivisionError")
    ELSE IF CompressorLossy(self) /\ self.compressor_efficiency = 0
    THEN Raise(AddSteps(StoreIsentropic(r, "2s", "Zustand 2 (realer Verdichteraustritt)"),
                        EffectiveCpStep(self, TRUE,
                                        "Effektiver cp-Wert fuer isentrope Verdichtung"),
                        "Allgemein"),
               "ZeroDivisionError")
    ELSE Return([AddSteps(StoreIsentropic(r, "2s", "Zustand 2 (realer Verdichteraustritt)"),
                          EffectiveCpStep(self, CompressorLossy(self),
                                          "Effektiver cp-Wert fuer isentrope Verdichtung")
                          \o (IF CompressorLossy(self)
                              THEN <<"Reale Temperaturaenderung dT12",
                                     "Temperatur T2",
                                     "Reale Enthalpieaenderung dh12",
                                     "Spezifische Enthalpie h2">>
                              ELSE <<"Temperatur und Enthalpie T2, h2">>)
                          \o <<"Temperatur T2 in C",
                               "Spezifisches Volumen v2",
                               "Entropieaenderung ds12",
                               "Spezifische Entropie s2">>, "Allgemein")
                   EXCEPT !.states =
                       Put(@, "2", RealCompression(self, self.states["1"], r.ret, p2))],
                None)

\* single-stage real compression (calculate_state_2 with intercooling off)
calculate_state_2_single(self, p2) ==
    RealState2(self, p2, calculate_state_2_isentropic(self, p2))

\* One real compression stage from (pa, Ta) to pb as the two-stage handler
\* computes it: isentropic and real end temperature.
StageT(self, Ta, Ts) ==
    IF CompressorLossy(self) THEN Ta + CompressorRise(Ts - Ta, self.compressor_efficiency)
    ELSE Ts

\* entropy at the end of a stage: unchanged when the stage is ideal
StageS(self, sa, Tb, Ta, pb, pa) ==
    IF CompressorLossy(self)
    THEN sa + EntropyChange(CpOver(self, Ta, Tb), self.R, Tb, Ta, pb, pa)
    ELSE sa

\* step titles of one stage of the two-stage handler
StageTitles(self, dT, T) == IF CompressorLossy(self) THEN <<dT, T>> ELSE <<T>>

\* the real and the isentropic end record of a stage from state st to pressure
\* pb with end temperatures Tb and Ts: both enthalpies use cp_val
StageStates(self, st, pb, Ts, Tb, cp_val) ==
    InOrder(<<cp_val>>,
            [real |-> Rec(pb, Tb, specific_volume(pb, Tb, self.gas),
                          st.h + Mul(cp_val, Tb - st.T),
                          StageS(self, st.s, Tb, st.T, pb, st.p)),
             isentropic |-> Rec(pb, Ts, specific_volume(pb, Ts, self.gas),
                                st.h + Mul(cp_val, Ts - st.T), st.s)])

\* a stage with its end temperatures known: cp over the real interval
StageBetween(self, st, pb, Ts, Tb) ==
    InOrder(<<Tb>>, StageStates(self, st, pb, Ts, Tb, CpOver(self, st.T, Tb)))

\* a stage with its isentropic end temperature known
StageFrom(self, st, pb, Ts) ==
    InOrder(<<Ts>>, StageBetween(self, st, pb, Ts, StageT(self, st.T, Ts)))

\* one compression stage from state st to pressure pb
Stage(self, st, pb) ==
    StageFrom(self, st, pb,
              IsentropicT(st.T, pb, st.p, KappaOver(self, st.T, pb, st.p, 2)))

\* isobaric change of state st to temperature T with mean heat capacity cp_m
IsobarWith(st, T, v, cp_m) ==
    InOrder(<<v, cp_m>>,
            Rec(st.p, T, v, st.h + Mul(cp_m, T - st.T), st.s + MulLn(cp_m, T, st.T)))

\* isobaric change of state st to temperature T
Isobar(self, st, T) ==
    InOrder(<<T>>, IsobarWith(st, T, specific_volume(st.p, T, self.gas),
                              CpOver(self, st.T, T)))

\* variant of IntermediatePressure: the arithmetic mean replaces the geometric
IntermediatePressureArithmetic(self, p1, p2) ==
    IF self.intercooling_pressure_ratio = None THEN (p1 + p2) \div 2
    ELSE Mul(p1, Val(self.intercooling_pressure_ratio))
\* intermediate pressure: sqrt(p1 * p2), or p1 * intercooling_pressure_ratio
IntermediatePressure(self, p1, p2) ==
    IF self.intercooling_pressure_ratio = None THEN SqrtProd(p1, p2)
    ELSE Mul(p1, Val(self.intercooling_pressure_ratio))

\* temperature after the intercooler: T1 unless configured
IntercoolerT(self, T1) ==
    IF self.intercooling_temperature = None THEN T1
    ELSE Val(self.intercooling_temperature)

\* the steps of the two-stage handler
IntercoolingSteps(self) ==
    AddSteps(
      AddSteps(
        AddSteps(
          _add_step(self, IF self.intercooling_pressure_ratio = None
                          THEN "Optimaler Zwischendruck"
                          ELSE "Benutzerdefinierter Zwischendruck",
                    "Zwischenkuehlung"),
          <<"Zustand 2a (nach erster Verdichtungsstufe)",
            "Temperatur T2as (isentrop)">>
          \o StageTitles(self, "Reale Temperaturaenderung dT12a", "Temperatur T2a"),
          "Zustand 2a"),
        <<"Zustand 2b (nach Zwischenkuehlung)",
          "Temperatur nach Zwischenkuehlung">>, "Zustand 2b"),
      <<"Zustand 2c (nach zweiter Verdichtungsstufe)",
        "Temperatur T2cs (isentrop)">>
      \o StageTitles(self, "Reale Temperaturaenderung dT2b2c", "Temperatur T2c"),
      "Zustand 2c")

\* variant of StoreStages: label 2 takes the isentropic end of the second stage
StoreStagesIsentropicAlias(states, a, b, c) ==
    Put(Put(Put(Put(Put(Put(states, "2a", a.real), "2a_s", a.isentropic),
                    "2b", b), "2c", c.real), "2c_s", c.isentropic),
        "2", c.isentropic)
\* the state map with the stages a and c and the cooled state b stored
StoreStages(states, a, b, c) ==
    InOrder(<<a, b, c>>,
            Put(Put(Put(Put(Put(Put(states, "2a", a.real), "2a_s", a.isentropic),
                            "2b", b), "2c", c.real), "2c_s", c.isentropic),
                "2", c.real))

\* second stage from the cooled state b
SecondStage(self, states, a, b, p2) ==
    InOrder(<<b>>, StoreStages(states, a, b, Stage(self, b, p2)))

\* intercooling of the first stage's end, then the second stage
CoolAndCompress(self, states, a, p2) ==
    InOrder(<<a>>,
            SecondStage(self, states, a,
                        Isobar(self, a.real, IntercoolerT(self, self.states["1"].T)),
                        p2))

\* two-stage compression with intercooling; p1, p2 > 0, ratio > 0 and
\* compressor_efficiency > 0
calculate_state_2_with_intercooling(self, p2) ==
    IF MissingState(self, "1") THEN Raise(self, "ValueError")
    ELSE Return([IntercoolingSteps(self) EXCEPT !.states =
                    CoolAndCompress(self, @,
                        Stage(self, self.states["1"],
                              IntermediatePressure(self, self.states["1"].p, p2)),
                        p2)],
                None)

calculate_state_2(self, p2) ==
    IF self.intercooling THEN calculate_state_2_with_intercooling(self, p2)
    ELSE calculate_state_2_single(self, p2)

\* state 3 from state st2 by isobaric heating, with cp_val over the interval
HeatedState(self, st2, p3, T3, cp_val) ==
    InOrder(<<cp_val>>,
            Rec(p3, T3, specific_volume(p3, T3, self.gas),
                st2.h + Mul(cp_val, T3 - st2.T),
                st2.s + EntropyChange(cp_val, self.R, T3, st2.T, p3, st2.p)))

\* No prerequisite test: state 2 is first read after two steps were appended.
calculate_state_3(self, p3, T3) ==
    IF p3 = 0
    THEN Raise(_add_step(self, "Zustand 3 (Turbineneintritt)", "Zustand 3"),
               "ZeroDivisionError")
    ELSE IF ~ Has(self.states, "2")
    THEN Raise(AddSteps(self, <<"Zustand 3 (Turbineneintritt)",
                                "Spezifisches Volumen v3">>, "Zustand 3"),
               "KeyError")
    ELSE Return([AddSteps(self, <<"Zustand 3 (Turbineneintritt)",
                                  "Spezifisches Volumen v3",
                                  "Spezifische Waermekapazitaet cp",
                                  "Enthalpiedifferenz dh23",
                                  "Spezifische Enthalpie h3",
                                  "Entropieaenderung ds23",
                                  "Spezifische Entropie s3">>, "Zustand 3")
                   EXCEPT !.states =
                       Put(@, "3", HeatedState(self, self.states["2"], p3, T3,
                                               CpOver(self, self.states["2"].T, T3)))],
                None)

calculate_state_4_isentropic(self, p4) ==
    IF MissingState(self, "3") THEN Raise(self, "ValueError")
    ELSE IF p4 = 0
    THEN Raise(AddSteps(self, <<"Zustand 4s (isentroper Turbinenaustritt)",
                                "Isentropenexponent kappa fuer die Expansion",
                                "Temperatur T4s (isentrop)",
                                "Temperatur T4s in C">>, "Allgemein"),
               "ZeroDivisionError")
    ELSE Return(AddSteps(self, <<"Zustand 4s (isentroper Turbinenaustritt)",
                                 "Isentropenexponent kappa fuer die Expansion",
                                 "Temperatur T4s (isentrop)",
                                 "Temperatur T4s in C",
                                 "Spezifisches Volumen v4s",
                                 "Spezifische Waermekapazitaet cp",
                                 "Enthalpiedifferenz dh34s",
                                 "Spezifische Enthalpie h4s",
                                 "Spezifische Entropie s4s">>, "Allgemein"),
                IsentropicChange(self, self.states["3"], p4))

\* the branch test of the real expansion
TurbineLossy(self) == self.turbine_efficiency < S

\* variant of TurbineDrop: the efficiency divides
TurbineDropOver(dT_isentrop, turbine_efficiency) == Div(dT_isentrop, turbine_efficiency)
\* real temperature drop of an expansion: dT_isentrop * turbine_efficiency
TurbineDrop(dT_isentrop, turbine_efficiency) == Mul(dT_isentrop, turbine_efficiency)

\* lossy expansion: T4 = T3 - dT_real, h4 = h3 + cp_val * (T4 - T3)
LossyExpansion(self, st, state_4s, p4, dT_real) ==
    InOrder(<<dT_real>>,
            RealEnd(self, st, p4, st.T - dT_real,
                    st.h + Mul(EffectiveCp(self, st, state_4s), (st.T - dT_real) - st.T)))

\* state 4 of the expansion from st with isentropic end state_4s
RealExpansion(self, st, state_4s, p4) ==
    IF TurbineLossy(self)
    THEN LossyExpansion(self, st, state_4s, p4,
                        TurbineDrop(st.T - state_4s.T, self.turbine_efficiency))
    ELSE RealEnd(self, st, p4, state_4s.T, state_4s.h)

\* calculate_state_4 after its call r of calculate_state_4_isentropic
RealState4(self, p4, r) ==
    IF r.raised # "none" THEN Raise(r.self, r.raised)
    ELSE IF TurbineLossy(self) /\ ~ self.use_const_cp /\ r.ret.T = self.states["3"].T
    THEN Raise(StoreIsentropic(r, "4s", "Zustand 4 (realer Turbinenaustritt)"),
               "ZeroDivisionError")
    ELSE Return([AddSteps(StoreIsentropic(r, "4s", "Zustand 4 (realer Turbinenaustritt)"),
                          EffectiveCpStep(self, TurbineLossy(self),
                                          "Effektiver cp-Wert fuer isentrope Expansion")
                          \o (IF TurbineLossy(self)
                              THEN <<"Reale Temperaturaenderung dT34",
                                     "Temperatur T4",
                                     "Reale Enthalpieaenderung dh34",
                                     "Spezifische Enthalpie h4">>
                              ELSE <<"Temperatur und Enthalpie T4, h4">>)
                          \o <<"Temperatur T4 in C",
                               "Spezifisches Volumen v4",
                               "Entropieaenderung ds34",
                               "Spezifische Entropie s4">>, "Allgemein")
                   EXCEPT !.states =
                       Put(@, "4", RealExpansion(self, self.states["3"], r.ret, p4))],
                None)

calculate_state_4(self, p4) ==
    RealState4(self, p4, calculate_state_4_isentropic(self, p4))

\* (T3 / T1) ** (kappa / (2 (kappa - 1)))
OptimalRatio(T3, T1, k) == MulPow(S, T3, T1, k, 2 * (k - S))

\* isentropic exponent between two temperatures: self.kappa, or kappa_mean
KappaBetween(self, Ta, Tb) ==
    IF self.use_const_cp THEN Val(self.kappa)
    ELSE kappa_mean(Ta, Tb, self.gas, FALSE)

\* the returned pair: pi_opt and the compressor outlet temperature it gives
OptimalPair(self, T1, pi_opt) ==
    InOrder(<<pi_opt>>,
            <<pi_opt, IsentropicT(T1, pi_opt, S, KappaOver(self, T1, pi_opt, S, 3))>>)

calculate_optimal_pressure_ratio(self) ==
    IF ~ Has(self.states, "1") THEN Raise(self, "KeyError")
    ELSE IF ~ Has(self.states, "3")
    THEN Return(_add_step(self, "Optimales Druckverhaeltnis konnte nicht berechnet werden",
                          "Allgemein"), <<None, None>>)
    ELSE Return(AddSteps(self, <<"Optimales Druckverhaeltnis pi_opt",
                                 "Optimale Temperatur T2">>, "Allgemein"),
                OptimalPair(self, self.states["1"].T,
                            OptimalRatio(self.states["3"].T, self.states["1"].T,
                                         KappaBetween(self, self.states["1"].T,
                                                      self.states["3"].T))))

\* the early return of calculate_regeneration: nothing to do
RegenOff(self) == ~ self.regeneration \/ self.reg_eff <= 0

\* variant of RegenFeasible: equality counts as feasible
RegenFeasibleAtEquality(T2, T4, pinch_point) == ~ (T4 < T2 + pinch_point)
\* heat can be transferred: the negation of "T4 <= T2 + pinch_point"
RegenFeasible(T2, T4, pinch_point) == ~ (T4 <= T2 + pinch_point)

\* variant of T2Star: the pinch point does not limit the preheating
T2StarIgnoringPinch(reg_eff, T2, T4, pinch_point) ==
    Min2(T2 + Mul(reg_eff, T4 - T2), T4)
\* preheated temperature T2*
T2Star(reg_eff, T2, T4, pinch_point) ==
    IF pinch_point > 0
    THEN Min2(T4 - pinch_point, T2 + Mul(reg_eff, T4 - T2))
    ELSE Min2(T2 + Mul(reg_eff, T4 - T2), T4)

\* cooled exhaust temperature T4* from the heat balance
T4Star(T2, T4, T2_star) == T4 - (T2_star - T2)

\* the state map with the preheated state 2* and the cooled state 4* stored
Preheat(self, states, st2, st4, T2_star) ==
    InOrder(<<T2_star>>,
            Put(Put(states, "2*", Isobar(self, st2, T2_star)),
                "4*", Isobar(self, st4, T4Star(st2.T, st4.T, T2_star))))

calculate_regeneration(self, pinch_point) ==
    IF RegenOff(self) THEN Return(self, None)
    ELSE IF MissingState(self, "2") \/ MissingState(self, "4")
    THEN Raise(self, "ValueError")
    ELSE IF ~ RegenFeasible(self.states["2"].T, self.states["4"].T, pinch_point)
    THEN Return(AddSteps(self, <<"Regeneration (Waermerueckgewinnung)",
                                 "Temperaturen fuer Regeneration",
                                 "Keine Regeneration moeglich">>, "Regeneration"),
                None)
    ELSE Return([AddSteps(self,
                   <<"Regeneration (Waermerueckgewinnung)",
                     "Temperaturen fuer Regeneration">>
                   \o (IF pinch_point > 0
                       THEN <<"Maximale Temperatur T2* (Pinch-Point-Beschraenkung)">>
                       ELSE <<>>)
                   \o <<"Temperatur T2* nach Regeneration (Hochdruckseite)",
                        "Temperatur T4* nach Regeneration (Niederdruckseite)",
                        "Enthalpieaenderung dh22*",
                        "Entropieaenderung ds22* (isobar)",
                        "Enthalpieaenderung dh44*",
                        "Entropieaenderung ds44* (isobar)">>, "Regeneration")
                   EXCEPT !.states =
                       Preheat(self, @, self.states["2"], self.states["4"],
                               T2Star(self.reg_eff, self.states["2"].T,
                                      self.states["4"].T, pinch_point))],
                None)

\* the aggregator's tests for the staged compression and the preheated states
HasIntercooling(self) ==
    Has(self.states, "2a") /\ Has(self.states, "2b") /\ Has(self.states, "2c")

UsesStar(self, label) == self.regeneration /\ Has(self.states, label)

\* log-mean temperature (Ta - Tb) / ln(Ta / Tb), Ta # Tb
LogMeanT(Ta, Tb) == DivLn(Ta - Tb, Ta, Tb)

\* the keys of the specific quantities and of their rates
RateNames ==
    [w_comp |-> "P_comp", w_turb |-> "P_turb", w_kp |-> "P_kp",
     q_in |-> "Q_in", q_out |-> "Q_out", w_comp1 |-> "P_comp1",
     w_comp2 |-> "P_comp2", q_intercool |-> "Q_intercool", q_reg |-> "Q_reg"]

\* variant of Rates: only the five quantities of the plain cycle get a rate
RatesOfPlainCycle(self, props) ==
    IF self.mass_flow = None THEN EmptyDict
    ELSE [K \in {"P_comp", "P_turb", "P_kp", "Q_in", "Q_out"} |->
             Mul(Val(self.mass_flow),
                 props[CHOOSE k \in DOMAIN RateNames : RateNames[k] = K])]
\* the rate entries added when a mass flow is configured
Rates(self, props) ==
    IF self.mass_flow = None THEN EmptyDict
    ELSE [K \in {RateNames[k] : k \in DOMAIN props \cap DOMAIN RateNames} |->
             Mul(Val(self.mass_flow),
                 props[CHOOSE k \in DOMAIN props \cap DOMAIN RateNames :
                           RateNames[k] = K])]

\* the state heat is added up to and the state heat is rejected from
HotSide(self) ==
    IF UsesStar(self, "2*") THEN self.states["2*"] ELSE self.states["2"]
\* variant of ColdSide: heat is rejected from state 4 even after a regenerator
ColdSideBeforeRegenerator(self) == self.states["4"]
ColdSide(self) ==
    IF UsesStar(self, "4*") THEN self.states["4*"] ELSE self.states["4"]

\* variant of CompressorWork: always the enthalpy difference between 1 and 2
CompressorWorkEndToEnd(self) == self.states["1"].h - self.states["2"].h
\* specific compressor work: the sum of the stages when there are stages
CompressorWork(self) ==
    IF HasIntercooling(self)
    THEN (self.states["1"].h - self.states["2a"].h)
         + (self.states["2b"].h - self.states["2c"].h)
    ELSE self.states["1"].h - self.states["2"].h

\* the aggregator's test for reporting q_reg
BothStars(self) == UsesStar(self, "2*") /\ Has(self.states, "4*")

\* the steps of the aggregator up to the heat balance
BalanceSteps(self) ==
    (IF HasIntercooling(self)
     THEN <<"Spezifische Verdichterarbeit erste Stufe w_c1",
            "Spezifische Verdichterarbeit zweite Stufe w_c2",
            "Gesamte spezifische Verdichterarbeit w_c",
            "Spezifische Waermeabfuhr bei Zwischenkuehlung q_intercool">>
     ELSE <<"Spezifische Verdichterarbeit w_c">>)

\* work, heat, efficiency and mean temperatures
Balance(self, w_comp, w_turb, q_in, q_out) ==
    [w_comp |-> w_comp, w_turb |-> w_turb, w_kp |-> w_comp + w_turb,
     q_in |-> q_in, q_out |-> q_out, eta_th |-> Div(w_comp + w_turb, q_in),
     T_m_zu |-> LogMeanT(self.states["3"].T, HotSide(self).T),
     T_m_ab |-> LogMeanT(ColdSide(self).T, self.states["1"].T)]

\* the stage entries, present when the compression was staged
WithStages(self, props) ==
    IF HasIntercooling(self)
    THEN Put(Put(Put(props, "w_comp1", self.states["1"].h - self.states["2a"].h),
                 "w_comp2", self.states["2b"].h - self.states["2c"].h),
             "q_intercool", self.states["2a"].h - self.states["2b"].h)
    ELSE props

\* the regenerator entry
WithRegenerator(self, props) ==
    IF BothStars(self)
    THEN Put(props, "q_reg", self.states["2*"].h - self.states["2"].h)
    ELSE props

\* the rate entries
WithRates(self, props) == InOrder(<<props>>, Rates(self, props) @@ props)

\* pressure and temperature ratio
WithRatios(self, props) ==
    Put(Put(props, "pi", Div(self.states["2"].p, self.states["1"].p)),
        "tau", Div(self.states["3"].T, self.states["1"].T))

\* variant of calculate_process_properties: the state the heat is added to
\* is stored as state 2
calculate_process_properties_storing(self) ==
    IF ~ HasIntercooling(self) /\ (~ Has(self.states, "1") \/ ~ Has(self.states, "2"))
    THEN Raise(self, "KeyError")
    ELSE IF ~ Has(self.states, "3") \/ ~ Has(self.states, "4")
    THEN Raise(AddSteps(self, BalanceSteps(self), "Allgemein"), "KeyError")
    ELSE IF self.states["3"].h - HotSide(self).h = 0
    THEN Raise(AddSteps(self, BalanceSteps(self)
                              \o <<"Spezifische Turbinenarbeit w_t",
                                   "Spezifische Kreisprozessarbeit w_KP",
                                   "Spezifische Waermezufuhr q_zu",
                                   "Spezifische Waermeabfuhr q_ab">>, "Allgemein"),
               "ZeroDivisionError")
    ELSE Return([AddSteps(self, BalanceSteps(self)
                               \o <<"Spezifische Turbinenarbeit w_t",
                                    "Spezifische Kreisprozessarbeit w_KP",
                                    "Spezifische Waermezufuhr q_zu",
                                    "Spezifische Waermeabfuhr q_ab",
                                    "Thermischer Wirkungsgrad eta_th",
                                    "Mittlere Temperatur der Waermezufuhr",
                                    "Mittlere Temperatur der Waermeabfuhr">>
                               \o (IF BothStars(self)
                                   THEN <<"Spezifische Waerme im Regenerator q_reg">>
                                   ELSE <<>>), "Allgemein")
                   EXCEPT !.states = Put(@, "2", HotSide(self))],
                WithRatios(self,
                  WithRates(self,
                    WithRegenerator(self,
                      WithStages(self,
                        Balance(self, CompressorWork(self),
                                self.states["3"].h - self.states["4"].h,
                                self.states["3"].h - HotSide(self).h,
                                ColdSide(self).h - self.states["1"].h))))))

\* Reads states by subscript: a missing state surfaces as KeyError, after the
\* steps already appended.  The quotient w_kp / q_in is taken on Python floats.
calculate_process_properties(self) ==
    IF ~ HasIntercooling(self) /\ (~ Has(self.states, "1") \/ ~ Has(self.states, "2"))
    THEN Raise(self, "KeyError")
    ELSE IF ~ Has(self.states, "3") \/ ~ Has(self.states, "4")
    THEN Raise(AddSteps(self, BalanceSteps(self), "Allgemein"), "KeyError")
    ELSE IF self.states["3"].h - HotSide(self).h = 0
    THEN Raise(AddSteps(self, BalanceSteps(self)
                              \o <<"Spezifische Turbinenarbeit w_t",
                                   "Spezifische Kreisprozessarbeit w_KP",
                                   "Spezifische Waermezufuhr q_zu",
                                   "Spezifische Waermeabfuhr q_ab">>, "Allgemein"),
               "ZeroDivisionError")
    ELSE Return(AddSteps(self, BalanceSteps(self)
                               \o <<"Spezifische Turbinenarbeit w_t",
                                    "Spezifische Kreisprozessarbeit w_KP",
                                    "Spezifische Waermezufuhr q_zu",
                                    "Spezifische Waermeabfuhr q_ab",
                                    "Thermischer Wirkungsgrad eta_th",
                                    "Mittlere Temperatur der Waermezufuhr",
                                    "Mittlere Temperatur der Waermeabfuhr">>
                               \o (IF BothStars(self)
                                   THEN <<"Spezifische Waerme im Regenerator q_reg">>
                                   ELSE <<>>), "Allgemein"),
                WithRatios(self,
                  WithRates(self,
                    WithRegenerator(self,
                      WithStages(self,
                        Balance(self, CompressorWork(self),
                                self.states["3"].h - self.states["4"].h,
                                self.states["3"].h - HotSide(self).h,
                                ColdSide(self).h - self.states["1"].h))))))

\* variant of Apply: calculate_regeneration is called without its argument
\* and runs on the default pinch point
ApplyDefaultPinch(self, op, args) ==
    CASE op = "set_parameters" ->
           set_parameters(self, args[1], args[2], args[3], args[4], args[5],
                          args[6], args[7], args[8])
      [] op = "calculate_state_1" -> calculate_state_1(self, args[1], args[2])
      [] op = "calculate_state_2" -> calculate_state_2(self, args[1])
      [] op = "calculate_state_3" -> calculate_state_3(self, args[1], args[2])
      [] op = "calculate_state_4" -> calculate_state_4(self, args[1])
      [] op = "calculate_regeneration" -> calculate_regeneration(self, 0)
      [] op = "calculate_process_properties" -> calculate_process_properties(self)
      [] op = "calculate_optimal_pressure_ratio" ->
           calculate_optimal_pressure_ratio(self)
\* the call self.op(*args) of a public method
Apply(self, op, args) ==
    CASE op = "set_parameters" ->
           set_parameters(self, args[1], args[2], args[3], args[4], args[5],
                          args[6], args[7], args[8])
      [] op = "calculate_state_1" -> calculate_state_1(self, args[1], args[2])
      [] op = "calculate_state_2" -> calculate_state_2(self, args[1])
      [] op = "calculate_state_3" -> calculate_state_3(self, args[1], args[2])
      [] op = "calculate_state_4" -> calculate_state_4(self, args[1])
      [] op = "calculate_regeneration" -> calculate_regeneration(self, args[1])
      [] op = "calculate_process_properties" -> calculate_process_properties(self)
      [] op = "calculate_optimal_pressure_ratio" ->
           calculate_optimal_pressure_ratio(self)

(***************************************************************************)
(* The state machine.  calc is the one solver instance a caller holds,     *)
(* last records the most recent call (operation, arguments, exception,     *)
(* return value) and traced tells whether the step log is observed: the    *)
(* log is written and never read by the solver, so the machine that calls  *)
(* the handlers in arbitrary order keeps only the part of the instance     *)
(* the handlers depend on.  other is a second solver instance the caller   *)
(* may hold besides calc, None when there is none.                         *)
(***************************************************************************)
VARIABLES calc, last, traced, other

vars == <<calc, last, traced, other>>

Observe(self) ==
    IF traced THEN self ELSE [self EXCEPT !.steps = <<>>, !.step_categories = <<>>]

bar == 100 * S * S

\* arguments the callers pass.  A solver that was never configured runs on
\* the constructor's defaults: no regeneration, ideal machines, one stage.
ParamSets ==
    { <<TRUE, Dec(0, 800), Dec(0, 850), Dec(0, 900), None, FALSE, None, None>>,
      <<TRUE, Dec(0, 500), S, S, Some(2 * S), TRUE, None, None>> }
InletPressures == {0, bar}
InletTemperatures == {Dec(293, 150)}
CompressorPressures == {8 * bar}
TurbineInletTemperatures == {Dec(1273, 150)}
TurbinePressures == {bar}
PinchPoints == {0, Dec(10, 0), Dec(2000, 0)}

\* one call of a handler with outcome r
\* variant of Call: the state map is one dict for all instances
CallOnSharedStates(op, args, r) ==
    /\ calc' = Observe(r.self)
    /\ last' = [op |-> op, args |-> args, raised |-> r.raised, ret |-> r.ret]
    /\ UNCHANGED traced
    /\ other' = IF other = None THEN None
                ELSE [other EXCEPT !.states = r.self.states]
\* A method call on calc.  The methods assign through self only, and steps,
\* states and step_categories are created by __init__ for each instance, so
\* the other instance keeps every attribute.
Call(op, args, r) ==
    /\ calc' = Observe(r.self)
    /\ last' = [op |-> op, args |-> args, raised |-> r.raised, ret |-> r.ret]
    /\ UNCHANGED traced
    /\ other' = other

Fresh(gas, use_const_cp) ==
    /\ calc = Observe(JouleProcessCalculator(gas, use_const_cp))
    /\ last = [op |-> "__init__", args |-> <<gas, use_const_cp>>,
               raised |-> "none", ret |-> None]
    /\ other = None

\* the solvers the arbitrary-order machine starts from
Solvers == { <<"carbon_dioxide", TRUE>>, <<"air", FALSE>> }

Init ==
    /\ traced = FALSE
    /\ \E sv \in Solvers : Fresh(sv[1], sv[2])

SetParameters ==
    \E a \in ParamSets :
        Call("set_parameters", a,
             set_parameters(calc, a[1], a[2], a[3], a[4], a[5], a[6], a[7], a[8]))

State1 ==
    \E p1 \in InletPressures, T1 \in InletTemperatures :
        Call("calculate_state_1", <<p1, T1>>, calculate_state_1(calc, p1, T1))

State2 ==
    \E p2 \in CompressorPressures :
        Call("calculate_state_2", <<p2>>, calculate_state_2(calc, p2))

State3 ==
    \E p3 \in CompressorPressures, T3 \in TurbineInletTemperatures :
        Call("calculate_state_3", <<p3, T3>>, calculate_state_3(calc, p3, T3))

State4 ==
    \E p4 \in TurbinePressures :
        Call("calculate_state_4", <<p4>>, calculate_state_4(calc, p4))

Regeneration ==
    \E pinch_point \in PinchPoints :
        Call("calculate_regeneration", <<pinch_point>>,
             calculate_regeneration(calc, pinch_point))

ProcessProperties ==
    Call("calculate_process_properties", <<>>, calculate_process_properties(calc))

OptimalPressureRatio ==
    Call("calculate_optimal_pressure_ratio", <<>>,
         calculate_optimal_pressure_ratio(calc))

Next ==
    \/ SetParameters
    \/ State1
    \/ State2
    \/ State3
    \/ State4
    \/ Regeneration
    \/ ProcessProperties
    \/ OptimalPressureRatio

Spec == Init /\ [][Next]_vars

(***************************************************************************)
(* One complete run in the order of the GUI's calculate callback           *)
(* (src/ui/widgets.py): a fresh solver, set_parameters, states 1 to 4 with *)
(* p3 = p2, regeneration when it is switched on (its exception is caught), *)
(* the aggregator and the optimal pressure ratio.  Any other exception     *)
(* ends the run.  The step log is observed.                                *)
(***************************************************************************)
RunGases == {"air", "carbon_dioxide"}
RunIntercooling ==
    { <<FALSE, None, None>>, <<TRUE, None, None>>,
      <<TRUE, Some(Dec(300, 0)), Some(Dec(1, 500))>> }
RunParamSets ==
    { <<reg, IF reg THEN re ELSE 0, ec, et, None, ic[1], ic[2], ic[3]>> :
        reg \in BOOLEAN, re \in {Dec(0, 500), Dec(0, 800), S},
        ec \in {Dec(0, 700), Dec(0, 850), S}, et \in {Dec(0, 900), S},
        ic \in RunIntercooling }
RunInletPressures == {bar}
RunInletTemperatures == {Dec(293, 150)}
RunCompressorPressures == {bar \div 2, bar, 4 * bar, 8 * bar}
RunTurbineInletTemperatures == {Dec(600, 0), Dec(1273, 150)}
RunTurbinePressures == {bar}
RunPinchPoints == {0, Dec(10, 0), Dec(50, 0), Dec(2000, 0)}

\* the previous call of the run was op and returned
After(op) == last.op = op /\ last.raised = "none"

InitRun ==
    /\ traced = TRUE
    /\ \E gas \in RunGases, use_const_cp \in BOOLEAN : Fresh(gas, use_const_cp)

RunSetParameters ==
    /\ After("__init__")
    /\ \E a \in RunParamSets :
         Call("set_parameters", a,
              set_parameters(calc, a[1], a[2], a[3], a[4], a[5], a[6], a[7], a[8]))

RunState1 ==
    /\ After("set_parameters")
    /\ \E p1 \in RunInletPressures, T1 \in RunInletTemperatures :
         Call("calculate_state_1", <<p1, T1>>, calculate_state_1(calc, p1, T1))

RunState2 ==
    /\ After("calculate_state_1")
    /\ \E p2 \in RunCompressorPressures :
         Call("calculate_state_2", <<p2>>, calculate_state_2(calc, p2))

RunState3 ==
    /\ After("calculate_state_2")
    /\ \E T3 \in RunTurbineInletTemperatures :
         Call("calculate_state_3", <<last.args[1], T3>>,
              calculate_state_3(calc, last.args[1], T3))

\* the outlet pressure is a free float: ambient pressure, or no expansion at all
RunState4 ==
    /\ After("calculate_state_3")
    /\ \E p4 \in RunTurbinePressures \cup {calc.states["3"].p} :
         Call("calculate_state_4", <<p4>>, calculate_state_4(calc, p4))

\* the pinch point is a free float: the slider values and the exact
\* temperature difference T4 - T2 of the run
RunRegeneration ==
    /\ After("calculate_state_4")
    /\ calc.regeneration
    /\ \E pinch_point \in RunPinchPoints
                          \cup {Max2(0, calc.states["4"].T - calc.states["2"].T)} :
         Call("calculate_regeneration", <<pinch_point>>,
              calculate_regeneration(calc, pinch_point))

RunProcessProperties ==
    /\ IF calc.regeneration THEN last.op = "calculate_regeneration"
       ELSE After("calculate_state_4")
    /\ Call("calculate_process_properties", <<>>, calculate_process_properties(calc))

RunOptimalPressureRatio ==
    /\ After("calculate_process_properties")
    /\ Call("calculate_optimal_pressure_ratio", <<>>,
            calculate_optimal_pressure_ratio(calc))

NextRun ==
    \/ RunSetParameters
    \/ RunState1
    \/ RunState2
    \/ RunState3
    \/ RunState4
    \/ RunRegeneration
    \/ RunProcessProperties
    \/ RunOptimalPressureRatio

SpecRun == InitRun /\ [][NextRun]_vars

(***************************************************************************)
(* The arbitrary-order machine with the step log observed.  The log grows  *)
(* with every call, so calls are made while it holds fewer than MaxLogged  *)
(* steps.                                                                  *)
(***************************************************************************)
MaxLogged == 3 * 3

InitLogged ==
    /\ traced = TRUE
    /\ \E s \in Solvers : Fresh(s[1], s[2])

NextLogged ==
    \/ Len(calc.steps) < MaxLogged /\ SetParameters
    \/ Len(calc.steps) < MaxLogged /\ State1
    \/ Len(calc.steps) < MaxLogged /\ State2
    \/ Len(calc.steps) < MaxLogged /\ State3
    \/ Len(calc.steps) < MaxLogged /\ State4
    \/ Len(calc.steps) < MaxLogged /\ Regeneration
    \/ Len(calc.steps) < MaxLogged /\ ProcessProperties
    \/ Len(calc.steps) < MaxLogged /\ OptimalPressureRatio

SpecLog == InitLogged /\ [][NextLogged]_vars

(***************************************************************************)
(* Two solver instances in one program.  The caller holds both, calls the  *)
(* methods of calc in any order and may turn to the other instance between *)
(* any two calls.  The step logs are observed; calls are made while the    *)
(* two logs together hold fewer than MaxPairLogged steps.                  *)
(***************************************************************************)
MaxPairLogged == 2 * 3

InitPair ==
    /\ traced = TRUE
    /\ \E a \in Solvers, b \in Solvers :
         /\ calc = JouleProcessCalculator(a[1], a[2])
         /\ other = JouleProcessCalculator(b[1], b[2])
         /\ last = [op |-> "__init__", args |-> a, raised |-> "none", ret |-> None]

\* the caller turns to the other instance
Switch ==
    /\ calc' = other
    /\ other' = calc
    /\ last' = [op |-> "switch", args |-> <<>>, raised |-> "none", ret |-> None]
    /\ UNCHANGED traced

NextPair ==
    \/ Len(calc.steps) + Len(other.steps) < MaxPairLogged /\ SetParameters
    \/ Len(calc.steps) + Len(other.steps) < MaxPairLogged /\ State1
    \/ Len(calc.steps) + Len(other.steps) < MaxPairLogged /\ State2
    \/ Len(calc.steps) + Len(other.steps) < MaxPairLogged /\ State3
    \/ Len(calc.steps) + Len(other.steps) < MaxPairLogged /\ State4
    \/ Len(calc.steps) + Len(other.steps) < MaxPairLogged /\ Regeneration
    \/ Len(calc.steps) + Len(other.steps) < MaxPairLogged /\ ProcessProperties
    \/ Len(calc.steps) + Len(other.steps) < MaxPairLogged /\ OptimalPressureRatio
    \/ Switch

SpecPair == InitPair /\ [][NextPair]_vars

(***************************************************************************)
(* The display order of the state list (src/visualization/plotting.py,     *)
(* src/visualization/results_formatter.py): the keys of the state map      *)
(* sorted by custom_sort_key.  The solver's keys 1 to 4 are Python ints;   *)
(* every other key is a str, spelled here as its sequence of characters.   *)
(***************************************************************************)

\* the keys that are ints, and their values
IntKeys == {"1", "2", "3", "4"}
IntValue(key) == CHOOSE n \in 1..4 : <<"1", "2", "3", "4">>[n] = key

\* the characters of a str key
KeyText(key) ==
    CASE key = "2s"   -> <<"2", "s">>
      [] key = "4s"   -> <<"4", "s">>
      [] key = "2*"   -> <<"2", "*">>
      [] key = "4*"   -> <<"4", "*">>
      [] key = "2a"   -> <<"2", "a">>
      [] key = "2a_s" -> <<"2", "a", "_", "s">>
      [] key = "2b"   -> <<"2", "b">>
      [] key = "2c"   -> <<"2", "c">>
      [] key = "2c_s" -> <<"2", "c", "_", "s">>

\* code points of the characters that occur in keys
Ord(c) ==
    CASE c = "*" -> 42
      [] c = "_" -> 95
      [] c = "a" -> 97
      [] c = "b" -> 98
      [] c = "c" -> 99
      [] c = "s" -> 115
      [] OTHER   -> 48 + (CHOOSE d \in 0..9 :
                            <<"0", "1", "2", "3", "4", "5", "6", "7", "8", "9">>[d + 1] = c)

IsDigit(c) == c \in {"0", "1", "2", "3", "4", "5", "6", "7", "8", "9"}

\* str.rstrip(chars)
RECURSIVE rstrip(_, _)
rstrip(text, chars) ==
    IF text # <<>> /\ text[Len(text)] \in chars
    THEN rstrip(SubSeq(text, 1, Len(text) - 1), chars)
    ELSE text

\* int(text) succeeds on a non-empty run of digits
IsNumeral(text) == text # <<>> /\ \A i \in 1..Len(text) : IsDigit(text[i])

\* int(text) for a numeral
RECURSIVE ToInt(_)
ToInt(text) ==
    IF text = <<>> THEN 0
    ELSE 10 * ToInt(SubSeq(text, 1, Len(text) - 1)) + (Ord(text[Len(text)]) - 48)

\* len(str(num)), num >= 0
RECURSIVE DecimalLength(_)
DecimalLength(num) == IF num < 10 THEN 1 ELSE 1 + DecimalLength(num \div 10)

\* the returned tuple: (num, suffix), or (float('inf'), key) on the fallback
SortKey(inf, num, suffix) == [inf |-> inf, num |-> num, suffix |-> suffix]

\* the key of a str whose text without trailing "*" and "s" is stripped
StrSortKey(text, stripped) ==
    IF IsNumeral(stripped)
    THEN SortKey(FALSE, ToInt(stripped),
                 SubSeq(text, DecimalLength(ToInt(stripped)) + 1, Len(text)))
    ELSE SortKey(TRUE, 0, text)

custom_sort_key(key) ==
    IF key \in IntKeys THEN SortKey(FALSE, IntValue(key), <<>>)
    ELSE StrSortKey(KeyText(key), rstrip(KeyText(key), {"*", "s"}))

\* str < str: lexicographic by code point, a proper prefix first
RECURSIVE StrLess(_, _)
StrLess(x, y) ==
    IF y = <<>> THEN FALSE
    ELSE IF x = <<>> THEN TRUE
    ELSE IF Ord(x[1]) # Ord(y[1]) THEN Ord(x[1]) < Ord(y[1])
    ELSE StrLess(Tail(x), Tail(y))

\* tuple < tuple: by the number, float('inf') above every int, then by the str
KeyLess(x, y) ==
    IF x.inf # y.inf THEN y.inf
    ELSE IF ~ x.inf /\ x.num # y.num THEN x.num < y.num
    ELSE StrLess(x.suffix, y.suffix)

\* sorted(keys, key=custom_sort_key) lists a before b
ListedBefore(a, b) == KeyLess(custom_sort_key(a), custom_sort_key(b))

(***************************************************************************)
(* Properties.                                                             *)
(***************************************************************************)

\* the step just taken was a call of op
Called(op) == last'.op = op

\* the labels of the state map
Labels(self) == DOMAIN self.states

\* C1: every compute-state operation called while its predecessor state is
\* absent ends in the dedicated missing-prerequisite error (ValueError):
\* calculate_state_2 without state 1, calculate_state_3 without state 2,
\* calculate_state_4 without state 3 and an active calculate_regeneration
\* without states 2 and 4.
C1_MissingPrerequisiteIsValueError ==
    [][ /\ Called("calculate_state_2") /\ ~ Has(calc.states, "1")
            => last'.raised = "ValueError"
        /\ Called("calculate_state_3") /\ ~ Has(calc.states, "2")
            => last'.raised = "ValueError"
        /\ Called("calculate_state_4") /\ ~ Has(calc.states, "3")
            => last'.raised = "ValueError"
        /\ Called("calculate_regeneration") /\ calc.regeneration /\ calc.reg_eff > 0
             /\ ~ (Has(calc.states, "2") /\ Has(calc.states, "4"))
            => last'.raised = "ValueError" ]_vars

\* the compute-state operations
ComputeOps ==
    {"calculate_state_2", "calculate_state_3", "calculate_state_4",
     "calculate_regeneration"}

\* C2: a compute-state operation that fails because its predecessor state is
\* missing (ValueError, or the KeyError of calculate_state_3) leaves the state
\* map exactly as it was: no label added, removed or changed.
C2_FailedCallKeepsStateMap ==
    [][ last'.op \in ComputeOps /\ last'.raised \in {"ValueError", "KeyError"}
            => calc'.states = calc.states ]_vars

\* C2 witness: a compute-state operation has failed on a solver whose state
\* map is not empty.
C2_Witness ==
    /\ last.op \in ComputeOps
    /\ last.raised \in {"ValueError", "KeyError"}
    /\ Labels(calc) # {}

\* the dependency order of the state map
DependencyOrder(self) ==
    /\ Has(self.states, "2") => Has(self.states, "1")
    /\ Has(self.states, "3") => Has(self.states, "2")
    /\ Has(self.states, "4") => Has(self.states, "3")
    /\ Has(self.states, "2*") \/ Has(self.states, "4*")
         => Has(self.states, "2") /\ Has(self.states, "4")

\* C3: from a fresh solver and after any sequence of calls the state map
\* respects the dependency order (2 needs 1, 3 needs 2, 4 needs 3, 2* or 4*
\* need 2 and 4), and no label, once present, is ever removed.
C3_DependencyOrderAndNoRemoval ==
    /\ [] DependencyOrder(calc)
    /\ [][ Labels(calc) \subseteq Labels(calc') ]_vars

\* C3 witness: state 2 has been recomputed on a solver that already holds
\* the regeneration states.
C3_Witness ==
    /\ last.op = "calculate_state_2"
    /\ last.raised = "none"
    /\ Has(calc.states, "4*")
    /\ Has(calc.states, "2a")

\* every stored temperature and pressure is positive
PositiveStates ==
    \A k \in Labels(calc) : calc.states[k].T > 0 /\ calc.states[k].p > 0

\* the previous call was an active calculate_regeneration on states 2 and 4
\* that found the heat transfer infeasible for its pinch point
FoundInfeasible ==
    /\ last.op = "calculate_regeneration"
    /\ last.raised = "none"
    /\ calc.regeneration /\ calc.reg_eff > 0
    /\ Has(calc.states, "2") /\ Has(calc.states, "4")
    /\ calc.states["4"].T <= calc.states["2"].T + last.args[1]

\* C4: calculate_regeneration with regeneration on, effectiveness > 0 and
\* states 2 and 4 present adds 2* and 4* if and only if T4 > T2 + pinch_point
\* strictly; otherwise (equality included) it raises nothing, extends the log
\* by steps ending in the explanatory no-op step and leaves the state map
\* unchanged.
C4_RegenerationIffStrictlyFeasible ==
    [][ Called("calculate_regeneration") /\ calc.regeneration /\ calc.reg_eff > 0
          /\ Has(calc.states, "2") /\ Has(calc.states, "4")
        => /\ last'.raised = "none"
           /\ IF calc.states["4"].T > calc.states["2"].T + last'.args[1]
              THEN /\ ~ Has(calc.states, "2*") /\ ~ Has(calc.states, "4*")
                   /\ Labels(calc') = Labels(calc) \cup {"2*", "4*"}
              ELSE /\ calc'.states = calc.states
                   /\ Len(calc'.steps) > Len(calc.steps)
                   /\ SubSeq(calc'.steps, 1, Len(calc.steps)) = calc.steps
                   /\ calc'.steps[Len(calc'.steps)].title = "Keine Regeneration moeglich"
       ]_vars

\* C4 witness: a regeneration was called at exact equality T4 = T2 + pinch_point
\* with a positive pinch point, and stored nothing.
C4_Witness ==
    /\ FoundInfeasible
    /\ last.args[1] > 0
    /\ calc.states["4"].T = calc.states["2"].T + last.args[1]
    /\ ~ Has(calc.states, "2*")

\* what the aggregator returns for the same solver with regeneration off
WithoutRegeneration(self) ==
    calculate_process_properties([self EXCEPT !.regeneration = FALSE]).ret

\* C5: when regeneration is on but was found infeasible, the aggregator
\* returns the same q_in, q_out, eta_th, T_m_zu and T_m_ab, and no q_reg, as
\* for the same states with regeneration off.
C5_InfeasibleRegenerationFallsBack ==
    [][ FoundInfeasible /\ Called("calculate_process_properties")
          /\ last'.raised = "none"
        => /\ \A k \in {"q_in", "q_out", "eta_th", "T_m_zu", "T_m_ab"} :
                last'.ret[k] = WithoutRegeneration(calc)[k]
           /\ ~ Has(last'.ret, "q_reg") ]_vars

\* the previous call was a regeneration that stored 2* and 4*
Regenerated ==
    /\ last.op = "calculate_regeneration"
    /\ last.raised = "none"
    /\ Has(calc.states, "2*") /\ Has(calc.states, "4*")

\* C6: after a feasible regeneration with effectiveness in (0,1] and
\* pinch_point >= 0, T2* = min(T2 + reg_eff (T4 - T2), T4 - pinch_point),
\* T4* = T4 - (T2* - T2), T2 < T2* <= T4 - pinch_point, T4* >= T2 + pinch_point,
\* p(2*) = p(2) and p(4*) = p(4).
C6_RegenerationTemperatures ==
    Regenerated /\ calc.reg_eff > 0 /\ calc.reg_eff <= S /\ last.args[1] >= 0
    => LET T2 == calc.states["2"].T
           T4 == calc.states["4"].T
           T2_star == calc.states["2*"].T
           T4_star == calc.states["4*"].T
           pinch_point == last.args[1]
       IN /\ T2_star = Min2(T2 + Mul(calc.reg_eff, T4 - T2), T4 - pinch_point)
          /\ T4_star = T4 - (T2_star - T2)
          /\ T2 < T2_star /\ T2_star <= T4 - pinch_point
          /\ T4_star >= T2 + pinch_point
          /\ calc.states["2*"].p = calc.states["2"].p
          /\ calc.states["4*"].p = calc.states["4"].p

\* C6 witness: a feasible regeneration in which the pinch point, not the
\* effectiveness, limits the preheating.
C6_Witness ==
    /\ Regenerated
    /\ last.args[1] > 0
    /\ calc.states["2*"].T = calc.states["4"].T - last.args[1]
    /\ calc.states["2*"].T
         < calc.states["2"].T + Mul(calc.reg_eff, calc.states["4"].T - calc.states["2"].T)

\* 1 J/(kg K): wider than any floating tolerance and than the rounding of the
\* fixed-point arithmetic
EntropyTolerance == S

\* the previous call was a single-stage calculate_state_2 that returned
Compressed ==
    /\ last.op = "calculate_state_2"
    /\ last.raised = "none"
    /\ ~ calc.intercooling

\* C7: for p2 > p1 and compressor efficiency 1 the state 2 stored by
\* calculate_state_2 has the entropy of state 1, up to the tolerance.
C7_IdealCompressionIsIsentropic ==
    Compressed /\ calc.compressor_efficiency = S
      /\ calc.states["2"].p > calc.states["1"].p
    => Abs(calc.states["2"].s - calc.states["1"].s) <= EntropyTolerance

\* C8 as stated: for every compressor efficiency in (0,1) and every target
\* pressure p2 the real temperature rise exceeds the isentropic one,
\* (T2 - T1) > (T2s - T1).
C8_RealRiseExceedsIsentropicRise ==
    Compressed /\ calc.compressor_efficiency > 0 /\ calc.compressor_efficiency < S
    => calc.states["2"].T - calc.states["1"].T
         > calc.states["2s"].T - calc.states["1"].T

\* C8 for a compression: for every compressor efficiency in (0,1) and every
\* target pressure p2 > p1 the real temperature rise exceeds the isentropic
\* one, (T2 - T1) > (T2s - T1).
C8_RealRiseExceedsIsentropicRiseForCompression ==
    Compressed /\ calc.compressor_efficiency > 0 /\ calc.compressor_efficiency < S
      /\ calc.states["2"].p > calc.states["1"].p
    => calc.states["2"].T - calc.states["1"].T
         > calc.states["2s"].T - calc.states["1"].T

\* C8 witness: a lossy single-stage compression to a higher pressure was stored.
C8_Witness ==
    /\ Compressed
    /\ calc.compressor_efficiency < S
    /\ calc.states["2"].p > calc.states["1"].p
    /\ calc.states["2"].T > calc.states["2s"].T

\* the previous call was a calculate_state_4 that returned
Expanded ==
    /\ last.op = "calculate_state_4"
    /\ last.raised = "none"

\* C9 as stated: for every turbine efficiency in (0,1) and every outlet
\* pressure p4 the real temperature drop is smaller than the isentropic one,
\* (T3 - T4) < (T3 - T4s).
C9_RealDropBelowIsentropicDrop ==
    Expanded /\ calc.turbine_efficiency > 0 /\ calc.turbine_efficiency < S
    => calc.states["3"].T - calc.states["4"].T
         < calc.states["3"].T - calc.states["4s"].T

\* C9 for an expansion: for every turbine efficiency in (0,1) and every outlet
\* pressure p4 < p3 the real temperature drop is smaller than the isentropic
\* one, (T3 - T4) < (T3 - T4s).
C9_RealDropBelowIsentropicDropForExpansion ==
    Expanded /\ calc.turbine_efficiency > 0 /\ calc.turbine_efficiency < S
      /\ calc.states["4"].p < calc.states["3"].p
    => calc.states["3"].T - calc.states["4"].T
         < calc.states["3"].T - calc.states["4s"].T

\* C9 witness: a lossy expansion to a lower pressure was stored.
C9_Witness ==
    /\ Expanded
    /\ calc.turbine_efficiency < S
    /\ calc.states["4"].p < calc.states["3"].p
    /\ calc.states["4"].T > calc.states["4s"].T

\* C10: in every reachable state every record of the state map stores the
\* specific volume R T / p of its own p and T and the configured gas's R.
C10_StoredVolumeIsIdealGas ==
    \A k \in Labels(calc) :
        calc.states[k].v = Div(Mul(GAS_PROPERTIES[calc.gas].R, calc.states[k].T),
                               calc.states[k].p)

\* C10 witness: the state map holds principal, isentropic, intercooling and
\* regeneration records of a gas other than air.
C10_Witness ==
    /\ calc.gas # "air"
    /\ {"1", "2", "3", "4", "2s", "4s", "2a", "2a_s", "2b", "2c", "2c_s", "2*", "4*"}
         \subseteq Labels(calc)

\* the previous call was a two-stage calculate_state_2 that returned
CompressedInStages ==
    /\ last.op = "calculate_state_2"
    /\ last.raised = "none"
    /\ calc.intercooling

\* C11: after a successful calculate_state_2 with intercooling enabled the
\* state map contains 2a, 2a_s, 2b, 2c and 2c_s, and the record under label 2
\* equals the record under label 2c in p, T, v, h and s.
C11_StagesStoredAndAliased ==
    CompressedInStages
    => /\ {"2a", "2a_s", "2b", "2c", "2c_s", "2"} \subseteq Labels(calc)
       /\ \A f \in {"p", "T", "v", "h", "s"} :
              calc.states["2"][f] = calc.states["2c"][f]

\* C11 witness: a lossy two-stage compression was stored, so that the real
\* end of the second stage differs from its isentropic counterpart.
C11_Witness ==
    /\ CompressedInStages
    /\ calc.compressor_efficiency < S
    /\ Has(calc.states, "2c") /\ Has(calc.states, "2c_s")
    /\ calc.states["2c"].T > calc.states["2c_s"].T

\* 0.001: the resolution of the fixed-point pressure ratios
RatioTolerance == 2 - 1

\* C12: in intercooled compression the intermediate pressure, stored as p of
\* 2a, 2a_s and 2b, is the geometric mean of p1 and p2 when no first-stage
\* ratio is configured, so that the stage ratios p_int / p1 and p2 / p_int are
\* equal, and is p1 times the configured ratio otherwise.
C12_IntermediatePressure ==
    CompressedInStages
    => /\ calc.states["2a_s"].p = calc.states["2a"].p
       /\ calc.states["2b"].p = calc.states["2a"].p
       /\ IF calc.intercooling_pressure_ratio = None
          THEN Abs(Div(calc.states["2a"].p, calc.states["1"].p)
                   - Div(last.args[1], calc.states["2a"].p)) <= RatioTolerance
          ELSE calc.states["2a"].p
                 = Mul(calc.states["1"].p, Val(calc.intercooling_pressure_ratio))

\* C12 witness: a two-stage compression to a higher pressure with no configured
\* ratio stored an intermediate pressure strictly between p1 and p2.
C12_Witness ==
    /\ CompressedInStages
    /\ calc.intercooling_pressure_ratio = None
    /\ calc.states["1"].p < calc.states["2a"].p
    /\ calc.states["2a"].p < last.args[1]

\* the leading digits of a label and what follows them
NumericPrefix(key) ==
    IF key \in IntKeys THEN IntValue(key) ELSE Ord(KeyText(key)[1]) - 48
LabelSuffix(key) == IF key \in IntKeys THEN <<>> ELSE Tail(KeyText(key))

\* C13: the display order of the state list is a total order on the labels
\* of the state map, by numeric prefix first, then by suffix
\* lexicographically, the bare number before every suffixed label of the same
\* number: every label with prefix 2 is listed before 3.
C13_DisplayOrderByNumericPrefix ==
    \A a, b \in Labels(calc) :
        /\ a # b => (ListedBefore(a, b) <=> ~ ListedBefore(b, a))
        /\ NumericPrefix(a) < NumericPrefix(b) => ListedBefore(a, b)
        /\ NumericPrefix(a) = NumericPrefix(b)
             /\ StrLess(LabelSuffix(a), LabelSuffix(b)) => ListedBefore(a, b)

\* the previous call was a calculate_process_properties that returned
Aggregated ==
    /\ last.op = "calculate_process_properties"
    /\ last.raised = "none"

\* C14: calculate_process_properties returns w_turb = h3 - h4,
\* w_kp = w_comp + w_turb and eta_th = w_kp / q_in, where w_comp = h1 - h2 for
\* single-stage compression and w_comp = w_comp1 + w_comp2 with
\* w_comp1 = h1 - h2a, w_comp2 = h2b - h2c and q_intercool = h2a - h2b for
\* intercooled compression.
C14_WorkBalance ==
    Aggregated
    => /\ last.ret.w_turb = calc.states["3"].h - calc.states["4"].h
       /\ last.ret.w_kp = last.ret.w_comp + last.ret.w_turb
       /\ last.ret.eta_th = Div(last.ret.w_kp, last.ret.q_in)
       /\ IF calc.intercooling
          THEN /\ last.ret.w_comp1 = calc.states["1"].h - calc.states["2a"].h
               /\ last.ret.w_comp2 = calc.states["2b"].h - calc.states["2c"].h
               /\ last.ret.q_intercool = calc.states["2a"].h - calc.states["2b"].h
               /\ last.ret.w_comp = last.ret.w_comp1 + last.ret.w_comp2
          ELSE last.ret.w_comp = calc.states["1"].h - calc.states["2"].h

\* C14 witness: the aggregator returned for an intercooled compression to a
\* higher pressure whose intercooler removed heat.
C14_Witness ==
    /\ Aggregated
    /\ calc.intercooling
    /\ last.ret.q_intercool > 0
    /\ last.ret.w_comp < 0
    /\ last.ret.w_kp > 0

\* the specific quantities of the aggregator and their absolute counterparts
SpecificAndAbsolute ==
    { <<"w_comp", "P_comp">>, <<"w_turb", "P_turb">>, <<"w_kp", "P_kp">>,
      <<"q_in", "Q_in">>, <<"q_out", "Q_out">>, <<"w_comp1", "P_comp1">>,
      <<"w_comp2", "P_comp2">>, <<"q_intercool", "Q_intercool">>,
      <<"q_reg", "Q_reg">> }

\* C15: if and only if a mass flow is configured, the aggregator's result
\* contains, for every specific quantity it reports (w_comp, w_turb, w_kp,
\* q_in, q_out, and when present w_comp1, w_comp2, q_intercool, q_reg), the
\* absolute quantity equal to mass_flow times the specific value.
C15_AbsoluteQuantities ==
    Aggregated
    => /\ {"w_comp", "w_turb", "w_kp", "q_in", "q_out"} \subseteq DOMAIN last.ret
       /\ \A q \in SpecificAndAbsolute :
            IF calc.mass_flow # None /\ Has(last.ret, q[1])
            THEN /\ Has(last.ret, q[2])
                 /\ last.ret[q[2]] = Mul(Val(calc.mass_flow), last.ret[q[1]])
            ELSE ~ Has(last.ret, q[2])

\* C15 witness: with a mass flow other than 1 the aggregator reported the
\* rates of an intercooled, regenerated cycle.
C15_Witness ==
    /\ Aggregated
    /\ calc.mass_flow # None /\ Val(calc.mass_flow) # S
    /\ {"P_comp1", "P_comp2", "Q_intercool", "Q_reg", "P_kp"} \subseteq DOMAIN last.ret
    /\ last.ret.Q_reg > 0
    /\ last.ret.P_kp # last.ret.w_kp

\* C16: for every state map in which states 1 and 2 exist,
\* calculate_process_properties reports pi = p2 / p1, and for every state map
\* in which states 1 and 3 exist it reports tau = T3 / T1, whether or not the
\* remaining states of the cycle have been computed.
C16_RatiosWheneverEndpointsExist ==
    [][ Called("calculate_process_properties")
        => /\ Has(calc.states, "1") /\ Has(calc.states, "2")
                => /\ last'.raised = "none"
                   /\ Has(last'.ret, "pi")
                   /\ last'.ret["pi"] = Div(calc.states["2"].p, calc.states["1"].p)
           /\ Has(calc.states, "1") /\ Has(calc.states, "3")
                => /\ last'.raised = "none"
                   /\ Has(last'.ret, "tau")
                   /\ last'.ret["tau"] = Div(calc.states["3"].T, calc.states["1"].T)
      ]_vars

\* C17: calculate_optimal_pressure_ratio never fails on a missing state: when
\* state 1 or state 3 is absent it returns the undetermined result (None, None)
\* and leaves the state map unchanged; when both are present it returns a
\* determined pair (pi_opt, T2_opt).
C17_OptimalRatioNeverFails ==
    [][ Called("calculate_optimal_pressure_ratio")
        => /\ last'.raised = "none"
           /\ IF Has(calc.states, "1") /\ Has(calc.states, "3")
              THEN last'.ret[1] # None /\ last'.ret[2] # None
              ELSE last'.ret = <<None, None>> /\ calc'.states = calc.states
      ]_vars

\* C18: degenerate numeric inputs never raise: calculate_state_1 with p1 = 0
\* completes and stores state 1 (with a non-finite specific volume), a cycle
\* with q_in = 0 is aggregated to the end, and the only fatal outcomes of
\* solver and aggregator calls are missing-prerequisite and unknown-gas errors.
C18_DegenerateInputsNeverRaise ==
    /\ last.raised \in {"none", "ValueError", "KeyError"}
    /\ last.op = "calculate_state_1" /\ last.args[1] = 0
         => last.raised = "none" /\ Has(calc.states, "1")

\* every step of the flat log is in exactly one category list, and the
\* category lists hold nothing else
Filed(self) ==
    /\ \A k \in 1..Len(self.steps) :
         \E i \in 1..Len(self.step_categories) :
           \E j \in 1..Len(self.step_categories[i].steps) :
             /\ self.step_categories[i].steps[j] = self.steps[k]
             /\ \A i2 \in 1..Len(self.step_categories) :
                  \A j2 \in 1..Len(self.step_categories[i2].steps) :
                    self.step_categories[i2].steps[j2] = self.steps[k]
                      => i2 = i /\ j2 = j
    /\ \A i \in 1..Len(self.step_categories) :
         \A j \in 1..Len(self.step_categories[i].steps) :
           \E k \in 1..Len(self.steps) :
             self.steps[k] = self.step_categories[i].steps[j]

\* the position of a step in the flat log
Emitted(self, step) == CHOOSE k \in 1..Len(self.steps) : self.steps[k] = step

\* each category list is in the order of the flat log, and the categories
\* are in the order of their first steps
InEmissionOrder(self) ==
    /\ \A i \in 1..Len(self.step_categories) :
         \A j1, j2 \in 1..Len(self.step_categories[i].steps) :
           j1 < j2 => Emitted(self, self.step_categories[i].steps[j1])
                        < Emitted(self, self.step_categories[i].steps[j2])
    /\ \A i1, i2 \in 1..Len(self.step_categories) :
         /\ self.step_categories[i1].steps # <<>>
         /\ i1 < i2 => /\ self.step_categories[i1].category
                            # self.step_categories[i2].category
                       /\ Emitted(self, self.step_categories[i1].steps[1])
                            < Emitted(self, self.step_categories[i2].steps[1])

IsPrefix(s, t) == Len(s) <= Len(t) /\ SubSeq(t, 1, Len(s)) = s

\* nothing logged before is removed or moved
LogKept(old, new) ==
    /\ IsPrefix(old.steps, new.steps)
    /\ Len(old.step_categories) <= Len(new.step_categories)
    /\ \A i \in 1..Len(old.step_categories) :
         /\ new.step_categories[i].category = old.step_categories[i].category
         /\ IsPrefix(old.step_categories[i].steps, new.step_categories[i].steps)

\* C19: after any sequence of operations the categorized step log is a
\* partition of the flat step log: every step appended to steps is in exactly
\* one category list, each category list holds its steps in the order they
\* were emitted, categories appear in the order in which each was first used,
\* and no operation removes or reorders previously appended steps.
C19_CategorizedLogPartitionsFlatLog ==
    [][ Filed(calc') /\ InEmissionOrder(calc') /\ LogKept(calc, calc') ]_vars

\* a category was used, then another one, then the first one again
C19_Witness ==
    /\ Len(calc.step_categories) >= 2
    /\ \E j \in 1..Len(calc.step_categories[1].steps) :
         Emitted(calc, calc.step_categories[1].steps[j])
           > Emitted(calc, calc.step_categories[2].steps[1])

\* the solver without its step log
Unlogged(self) == [self EXCEPT !.steps = <<>>, !.step_categories = <<>>]

\* C20: calculate_process_properties is a pure function of the state map and
\* the configuration: it never changes the state map or the cycle parameters,
\* and two consecutive calls with no intervening solver operation return equal
\* results.
C20_AggregatorIsPure ==
    [][ Called("calculate_process_properties")
        => /\ Unlogged(calc') = Unlogged(calc)
           /\ last.op = "calculate_process_properties"
                => last'.raised = last.raised /\ last'.ret = last.ret
      ]_vars

\* the aggregator has returned the balance of a regenerated cycle; the solver
\* it read is the one the next call reads
C20_Witness ==
    /\ Aggregated
    /\ Has(calc.states, "2*") /\ Has(calc.states, "4*")
    /\ Has(last.ret, "q_reg") /\ last.ret["q_reg"] # 0
    /\ calculate_process_properties(calc).ret = last.ret

\* the step made the call recorded in last' on calc, with the outcome that
\* call has on an instance with the attributes of calc
Alone(r) ==
    /\ calc' = Observe(r.self)
    /\ last'.raised = r.raised
    /\ last'.ret = r.ret

SingleStage(self, inlet, p) ==
    calculate_state_2_single([self EXCEPT !.states = Put(EmptyDict, "1", inlet)],
                             p).self.states

\* the stage ends as the single-stage algorithm ends
AsSingleStage(self, inlet, real, ideal) ==
    /\ self.states[real] = SingleStage(self, inlet, self.states[real].p)["2"]
    /\ self.states[ideal] = SingleStage(self, inlet, self.states[real].p)["2s"]

\* C23: each stage of intercooled compression gives the same result as the
\* single-stage algorithm applied to that stage: 2a and 2a_s equal the 2 and
\* 2s that calculate_state_2 without intercooling produces from state 1 for
\* the intermediate pressure, and 2c and 2c_s those it produces from 2b for p2.
C23_StagesAsSingleStage ==
    CompressedInStages
      => /\ AsSingleStage(calc, calc.states["1"], "2a", "2a_s")
         /\ AsSingleStage(calc, calc.states["2b"], "2c", "2c_s")

\* the temperatures the solver holds
StoredTemperatures == { calc.states[label].T : label \in Labels(calc) }

\* C24: for every registered gas, every temperature and both settings of
\* use_const the property provider satisfies cv(T) = cp(T) - R and
\* kappa(T) = cp(T) / cv(T); in particular the constant isentropic exponent
\* frozen by the solver equals cp_const / (cp_const - R).
C24_CvAndKappaFromCp ==
    /\ \A gas \in DOMAIN GAS_PROPERTIES, use_const \in BOOLEAN :
         \A T \in StoredTemperatures \cup InletTemperatures :
           /\ cv(T, gas, use_const) = cp(T, gas, use_const) - GAS_PROPERTIES[gas].R
           /\ kappa(T, gas, use_const)
                = Div(cp(T, gas, use_const), cv(T, gas, use_const))
    /\ calc.use_const_cp
         => Val(calc.kappa)
              = Div(Val(calc.cp_const), Val(calc.cp_const) - calc.R)

\* C25: calculate_state_2 and calculate_state_4 are atomic with respect to the
\* state map: a call either completes and stores the isentropic counterpart
\* and the real state, or raises and leaves the state map unchanged; hence in
\* every reachable state 2s present implies 2 present and 4s present implies
\* 4 present.
C25_RealStatesAreAtomic ==
    [][ /\ Called("calculate_state_2")
             => IF last'.raised = "none"
                THEN /\ Has(calc'.states, "2")
                     /\ Has(calc'.states, IF calc.intercooling THEN "2c_s" ELSE "2s")
                ELSE calc'.states = calc.states
        /\ Called("calculate_state_4")
             => IF last'.raised = "none"
                THEN Has(calc'.states, "4") /\ Has(calc'.states, "4s")
                ELSE calc'.states = calc.states
        /\ Has(calc'.states, "2s") => Has(calc'.states, "2")
        /\ Has(calc'.states, "4s") => Has(calc'.states, "4")
      ]_vars

\* C26: after any sequence of operations on one solver (including
\* recomputing state 2 or state 4 with new arguments after a regeneration),
\* whenever 2* and 4* are in the state map they are consistent with the
\* current states 2 and 4: p(2*) = p(2), p(4*) = p(4) and
\* T(2*) - T(2) = T(4) - T(4*).
C26_StarStatesFollowStates ==
    Has(calc.states, "2*") /\ Has(calc.states, "4*")
      => /\ calc.states["2*"].p = calc.states["2"].p
         /\ calc.states["4*"].p = calc.states["4"].p
         /\ calc.states["2*"].T - calc.states["2"].T
              = calc.states["4"].T - calc.states["4*"].T

\* C27: after any sequence of operations on one solver (including changing
\* the intercooling flag with set_parameters and calling calculate_state_2
\* again), whenever the label 2c is present the record under label 2 equals
\* the record under label 2c.
C27_State2IsState2c ==
    Has(calc.states, "2c") => calc.states["2"] = calc.states["2c"]

\* C28: calculate_process_properties computes the two-stage compressor split
\* (w_comp1, w_comp2, q_intercool, w_comp = w_comp1 + w_comp2) exactly when
\* the intercooling flag is enabled at the time of the call, and
\* w_comp = h1 - h2 exactly when it is disabled, for every state map reachable
\* by any sequence of operations.
C28_SplitFollowsIntercoolingFlag ==
    Aggregated
      => IF calc.intercooling
         THEN /\ {"w_comp1", "w_comp2", "q_intercool"} \subseteq DOMAIN last.ret
              /\ last.ret["w_comp"] = last.ret["w_comp1"] + last.ret["w_comp2"]
         ELSE /\ {"w_comp1", "w_comp2", "q_intercool"} \cap DOMAIN last.ret = {}
              /\ last.ret["w_comp"] = calc.states["1"].h - calc.states["2"].h

\* C29: a compute-state operation that fails because its predecessor state is
\* missing appends nothing to the step log: steps and step_categories are the
\* same after the failed call as before it, for calculate_state_2,
\* calculate_state_3, calculate_state_4 and calculate_regeneration.
C29_FailedCallLogsNothing ==
    [][ last'.op \in ComputeOps /\ last'.raised \in {"ValueError", "KeyError"}
            => /\ calc'.steps = calc.steps
               /\ calc'.step_categories = calc.step_categories ]_vars

\* the heat removed between the stages, 0 when the result has no such entry
InterstageHeat(props) ==
    IF Has(props, "q_intercool") THEN props["q_intercool"] ELSE 0

\* C30: first-law closure of the aggregator in constant-cp mode: after a
\* complete run from a fresh solver the returned values satisfy
\* w_kp = q_in - q_out - q_intercool (q_intercool taken as 0 without
\* intercooling), and with regeneration q_reg = h2* - h2 = h4 - h4*.
C30_FirstLawClosure ==
    Aggregated /\ calc.use_const_cp
        => /\ last.ret["w_kp"] = last.ret["q_in"] - last.ret["q_out"]
                                     - InterstageHeat(last.ret)
           /\ Has(last.ret, "q_reg")
                  => /\ last.ret["q_reg"]
                            = calc.states["2*"].h - calc.states["2"].h
                     /\ last.ret["q_reg"]
                            = calc.states["4"].h - calc.states["4*"].h

\* a run with staged compression and a regenerator has been aggregated in
\* constant-cp mode, with heat removed between the stages and heat recovered
C30_Witness ==
    /\ Aggregated /\ calc.use_const_cp
    /\ Has(last.ret, "q_reg") /\ last.ret["q_reg"] > 0
    /\ InterstageHeat(last.ret) > 0
    /\ calc.compressor_efficiency < S /\ calc.turbine_efficiency < S

====
